---------------------------- MODULE Spec2Model ----------------------------
(***************************************************************************)
(* Leaderbordle: a Discord bot that parses shared results of Wordle-like   *)
(* games (variants.py), stores them (storage.py) and renders leaders and   *)
(* per-user statistics (leaderbordle.py).                                  *)
(*                                                                         *)
(* Three specifications share the variables below:                         *)
(*   Spec        the `leaders` command (validation, read_leaders, ranking) *)
(*   SpecStore   the two stores' record_result / read_user_stats and the   *)
(*               `stats user` command                                      *)
(*   SpecMessage the on_message handler and the variants' parse methods    *)
(* Each leaves the other two parts of the state where Init put them.       *)
(***************************************************************************)
EXTENDS Integers, Sequences, FiniteSets, TLC

VARIABLES
    \* ---- the leaders command (leaderbordle.py 56-120) ----
    guild,            \* user ids ctx.message.guild.get_member() resolves
    cmd_pc,           \* "idle" | "reading" | "ranking" | "done" | "error"
    days,             \* the command's argument
    rpc_calls,        \* number of client.rpc('leaders', ...) requests made
    rpc_status,       \* status_code of the last response, 0 before any
    leaders,          \* read_leaders' return: dict variant -> dict user -> data
    vpos,             \* position of the outer loop in leaders.items()
    cpos,             \* position of the inner loop in variant_leaders.items()
    inner,            \* "running" | "break": how the inner loop stands
    field_message,    \* the entries appended to field_message
    medals_awarded,
    next_medal,
    num_tied,
    last_successes,
    last_guesses,
    embed,            \* the fields added to the embed
    sent,             \* what ctx.send() was given
    error,            \* the exception that ended the handler, or "none"
    \* ---- the stores (storage.py) ----
    attempts,         \* the rows of the SupabaseStore's table "Attempts"
    sb_written,       \* history: the last result recorded there for each key
    sb_replaced,      \* history: a call there replaced a row of other guesses
    results,          \* InMemoryStore.results
    mem_calls,        \* history: InMemoryStore.record_result calls per (variant, user)
    n_records,        \* record_result calls made
    store_ret,        \* what the last store method returned
    call,             \* and the call that was: the method and its arguments
    stats_sent,       \* what the last stats command sent
    stats_error,      \* the exception that ended it, or "none"
    \* ---- the on_message handler (leaderbordle.py 29-44) ----
    msg_pc,           \* "idle" | "parsing" | "done" | "error"
    msg_content,      \* message.content
    author,           \* message.author.id
    vnext,            \* position of the loop in variants.values()
    was_parsed,
    reactions,        \* reactions added to the message
    parsed,           \* the results handed to store.record_result
    msg_error,        \* the exception that ended the handler, or "none"
    commands_processed

leaderVars == <<guild, cmd_pc, days, rpc_calls, rpc_status, leaders, vpos, cpos, inner,
                field_message, medals_awarded, next_medal, num_tied,
                last_successes, last_guesses, embed, sent, error>>

\* what on_message leaves alone of the stores
storeOnlyVars == <<results, mem_calls, n_records, store_ret, call, stats_sent, stats_error>>

storeVars == <<attempts, sb_written, sb_replaced, storeOnlyVars>>

msgVars == <<msg_pc, msg_content, author, vnext, was_parsed, reactions, parsed,
             msg_error, commands_processed>>

(***************************************************************************)
(* Bounds of the model.                                                    *)
(***************************************************************************)
MaxRows == 3          \* rows in one response of the 'leaders' RPC

(***************************************************************************)
(* Python values.                                                          *)
(***************************************************************************)
None == "None"

\* A dict is the sequence of its items in insertion order.
DictHas(d, k) == \E i \in 1..Len(d) : d[i].key = k

DictGet(d, k) == d[CHOOSE i \in 1..Len(d) : d[i].key = k].val

\* d[k] = v: a new key goes last, a known key keeps its place.
DictSet(d, k, v) ==
    IF DictHas(d, k)
    THEN [i \in 1..Len(d) |-> IF d[i].key = k THEN [key |-> k, val |-> v] ELSE d[i]]
    ELSE Append(d, [key |-> k, val |-> v])

\* d.setdefault(k, dflt)
DictSetDefault(d, k, dflt) == IF DictHas(d, k) THEN d ELSE DictSet(d, k, dflt)

(***************************************************************************)
(* SupabaseStore.read_leaders (storage.py 93-113).                         *)
(* avg_guesses is held in half guesses (2.5 guesses is 5), so that the     *)
(* averages stay integers; the sort key is doubled with it.                *)
(***************************************************************************)
sys_maxsize == 2147483647   \* the largest integer of the model, for sys.maxsize

\* key=lambda kv: kv[1]['successes'] * 1000000 + (100000 - kv[1]['avg_guesses'])
SortKey(kv) == kv.val.successes * 2000000 + (200000 - kv.val.avg_guesses)

\* sorted(items, key=..., reverse=True): descending, equal keys keep their order.
RECURSIVE SortedReverse(_)
SortedReverse(items) ==
    IF items = <<>> THEN <<>>
    ELSE LET front == SortedReverse(SubSeq(items, 1, Len(items) - 1))
             x     == items[Len(items)]
             n     == Cardinality({i \in 1..Len(front) : SortKey(front[i]) >= SortKey(x)})
         IN  SubSeq(front, 1, n) \o <<x>> \o SubSeq(front, n + 1, Len(front))

\* the loop over response.json() (storage.py 98-104)
RECURSIVE CollectLeaders(_, _)
CollectLeaders(rows, all_leaders) ==
    IF rows = <<>> THEN all_leaders
    ELSE LET row  == Head(rows)
             with == DictSetDefault(all_leaders, row.variant, <<>>)
             variant_leaders == DictGet(with, row.variant)
             data == [successes |-> row.successes, avg_guesses |-> row.avg_guesses]
         IN  CollectLeaders(Tail(rows),
                 DictSet(with, row.variant, DictSet(variant_leaders, row.user_id, data)))

\* A method's return value: Python's None, or the dict it built.
ReturnNone == [is_none |-> TRUE, items |-> <<>>]

ReturnDict(d) == [is_none |-> FALSE, items |-> d]

SupabaseStore_read_leaders(response) ==
    IF response.status_code # 200 THEN ReturnNone
    ELSE LET all_leaders == CollectLeaders(response.json, <<>>)
         IN  ReturnDict([i \in 1..Len(all_leaders) |->
                 [key |-> all_leaders[i].key, val |-> SortedReverse(all_leaders[i].val)]])

(***************************************************************************)
(* The responses of the 'leaders' RPC the model draws from.                *)
(***************************************************************************)
Users == {"A", "B", "C", "D", "E"}

RowUsers == {"A", "B", "C"}

Guilds == {Users, Users \ {"A"}}

\* <<successes, avg_guesses>>, avg_guesses in half guesses: 10 wins at 3.0,
\* 9 at 2.5, 8 at 4.0, and 10 at 1000003.0 (Semantle has no guess limit).
LeaderValues == {<<10, 6>>, <<9, 5>>, <<8, 8>>, <<10, 2000006>>}

LeaderRow(v, u, sa) ==
    [variant |-> v, user_id |-> u, successes |-> sa[1], avg_guesses |-> sa[2]]

\* Every value for three users of one variant, and two rows of a second variant.
LeaderRows ==
    {LeaderRow("Wordle", u, sa) : u \in RowUsers, sa \in LeaderValues}
    \cup {LeaderRow("Heardle", "A", sa) : sa \in {<<10, 6>>, <<9, 5>>}}

\* A(10, 3.0), B(10, 3.0), C(9, 2.5), D(8, 4.0) of one variant, in that order.
ExampleRows ==
    << LeaderRow("Wordle", "A", <<10, 6>>), LeaderRow("Wordle", "B", <<10, 6>>),
       LeaderRow("Wordle", "C", <<9, 5>>),  LeaderRow("Wordle", "D", <<8, 8>>) >>

\* Five users tied on both values.
TiedRows ==
    << LeaderRow("Wordle", "A", <<10, 6>>), LeaderRow("Wordle", "B", <<10, 6>>),
       LeaderRow("Wordle", "C", <<10, 6>>), LeaderRow("Wordle", "D", <<10, 6>>),
       LeaderRow("Wordle", "E", <<10, 6>>) >>

LeaderResponses ==
    {[status_code |-> 500, json |-> <<>>]}
    \cup {[status_code |-> 200, json |-> rows] :
            rows \in UNION {[1..n -> LeaderRows] : n \in 0..MaxRows}}
    \cup {[status_code |-> 200, json |-> ExampleRows],
          [status_code |-> 200, json |-> TiedRows]}

DaysInputs == {0, 1, 30, 31}

(***************************************************************************)
(* variants.get_variants() (variants.py 418-436): the names in order.      *)
(* "Werdel" stands for the name of the Werdel class, which is spelled in   *)
(* the International Phonetic Alphabet.                                    *)
(***************************************************************************)
VariantNames ==
    << "Wordle", "Worldle", "Semantle", "Heardle", "Framed", "Flagle",
       "BTSHeardle", "Yeardle", "Chrono", "Lewdle", "Werdel" >>

IsVariant(name) == \E i \in 1..Len(VariantNames) : VariantNames[i] = name

(***************************************************************************)
(* The leaders command (leaderbordle.py 56-120).                           *)
(***************************************************************************)
medal_emojis == <<"U+1F947", "U+1F948", "U+1F949">>

DaysTooSmall(d) == d < 1

DaysTooLarge_offbyone(d) == d >= 30

DaysTooLarge(d) == d > 30

\* ctx.send(text) and ctx.send(embed=embed)
TextMessage(text) == [text |-> text, embeds |-> <<>>]

EmbedMessage(title_days, fields) ==
    [text |-> "", embeds |-> <<[title_days |-> title_days, fields |-> fields]>>]

\* The handler ends by raising exc.
Raise(exc) ==
    /\ cmd_pc' = "error"
    /\ error' = exc

\* As the locals would be if next_medal started past the last medal.
StartVariant_pastmedals ==
    /\ cpos' = 1
    /\ inner' = "running"
    /\ field_message' = <<>>
    /\ medals_awarded' = 0
    /\ next_medal' = Len(medal_emojis)
    /\ num_tied' = 1
    /\ last_successes' = sys_maxsize
    /\ last_guesses' = 0

\* The locals of one pass of the outer loop (lines 74-80).
StartVariant ==
    /\ cpos' = 1
    /\ inner' = "running"
    /\ field_message' = <<>>
    /\ medals_awarded' = 0
    /\ next_medal' = 0
    /\ num_tied' = 1
    /\ last_successes' = sys_maxsize
    /\ last_guesses' = 0

rankVars == <<cpos, inner, field_message, medals_awarded, next_medal, num_tied,
              last_successes, last_guesses>>

\* lines 57-63: the command is invoked with `days`, in the guild of ctx.
LeadersInvoke(d, g) ==
    /\ cmd_pc = "idle"
    /\ days' = d
    /\ guild' = g
    /\ IF DaysTooSmall(d)
       THEN /\ sent' = Append(sent,
                        TextMessage("The number of days must be greater than or equal to 1."))
            /\ cmd_pc' = "done"
       ELSE IF DaysTooLarge(d)
       THEN /\ sent' = Append(sent,
                        TextMessage("The number of days must be less than or equal to 30."))
            /\ cmd_pc' = "done"
       ELSE /\ sent' = sent
            /\ cmd_pc' = "reading"
    /\ UNCHANGED <<rpc_calls, rpc_status, leaders, vpos, rankVars, embed, error>>
    /\ UNCHANGED <<storeVars, msgVars>>

\* lines 65-71: store.read_leaders(days, []) answers, then the len() test.
LeadersRead(response) ==
    /\ cmd_pc = "reading"
    /\ rpc_calls' = rpc_calls + 1
    /\ rpc_status' = response.status_code
    /\ LET ret == SupabaseStore_read_leaders(response)
       IN  IF ret.is_none
           THEN \* len(None)
                /\ Raise("TypeError")
                /\ UNCHANGED <<leaders, vpos, rankVars, sent>>
           ELSE IF Len(ret.items) = 0
           THEN /\ sent' = Append(sent, TextMessage("There are no leaders. Play more!"))
                /\ cmd_pc' = "done"
                /\ UNCHANGED <<leaders, vpos, rankVars, error>>
           ELSE /\ leaders' = ret.items
                /\ vpos' = 1
                /\ StartVariant
                /\ cmd_pc' = "ranking"
                /\ UNCHANGED <<sent, error>>
    /\ UNCHANGED <<guild, days, embed>>
    /\ UNCHANGED <<storeVars, msgVars>>

\* The items of the inner loop: leaders[variant_name].items().
variant_name == leaders[vpos].key

variant_leaders == leaders[vpos].val

\* Whether the comparison of line 98 sends `data` into the new-medal branch.
MovesOn(data) == data.successes < last_successes \/ data.avg_guesses > last_guesses

\* Terminate once this many medals are passed (line 101).
MedalsBeforeBreak == 2

\* lines 82-110: one pass of the inner loop, over the item at cpos.
RankStep ==
    /\ cmd_pc = "ranking"
    /\ inner = "running"
    /\ cpos <= Len(variant_leaders)
    /\ LET user_id == variant_leaders[cpos].key
           data    == variant_leaders[cpos].val
       IN  IF user_id \notin guild
           THEN \* member is None: continue
                /\ cpos' = cpos + 1
                /\ UNCHANGED <<cmd_pc, error, inner, field_message, medals_awarded,
                               next_medal, num_tied, last_successes, last_guesses>>
           ELSE IF next_medal + 1 > Len(medal_emojis)
           THEN \* medal_emojis[next_medal]
                /\ Raise("IndexError")
                /\ UNCHANGED rankVars
           ELSE /\ field_message' = Append(field_message,
                        [medal |-> medal_emojis[next_medal + 1], user_id |-> user_id,
                         successes |-> data.successes, avg_guesses |-> data.avg_guesses])
                /\ medals_awarded' = medals_awarded + 1
                /\ IF MovesOn(data)
                   THEN IF medals_awarded' > MedalsBeforeBreak
                        THEN /\ inner' = "break"
                             /\ UNCHANGED <<cmd_pc, error, cpos, next_medal, num_tied,
                                            last_successes, last_guesses>>
                        ELSE /\ last_successes' = data.successes
                             /\ IF "last_guesses" \in DOMAIN data
                                THEN /\ last_guesses' = data["last_guesses"]
                                     /\ next_medal' = next_medal + num_tied
                                     /\ num_tied' = 1
                                     /\ cpos' = cpos + 1
                                     /\ UNCHANGED <<cmd_pc, error, inner>>
                                ELSE \* data['last_guesses']
                                     /\ Raise("KeyError")
                                     /\ UNCHANGED <<cpos, inner, next_medal, num_tied,
                                                    last_guesses>>
                   ELSE /\ num_tied' = num_tied + 1
                        /\ cpos' = cpos + 1
                        /\ UNCHANGED <<cmd_pc, error, inner, next_medal,
                                       last_successes, last_guesses>>
    /\ UNCHANGED <<guild, days, rpc_calls, rpc_status, leaders, vpos, embed, sent>>
    /\ UNCHANGED <<storeVars, msgVars>>

\* The inner loop is over: by break, or with the items exhausted.
InnerOver == IF inner = "break" THEN TRUE ELSE cpos > Len(variant_leaders)

\* lines 112-120: after the inner loop, the field is added and the outer loop
\* goes on; after the last variant the embed is sent.
EndVariant ==
    /\ cmd_pc = "ranking"
    /\ InnerOver
    /\ IF medals_awarded # 0 /\ ~IsVariant(variant_name)
       THEN \* variants[variant_name]
            /\ Raise("KeyError")
            /\ UNCHANGED <<vpos, rankVars, embed, sent>>
       ELSE /\ embed' = IF medals_awarded = 0 THEN embed
                         ELSE Append(embed, [name |-> variant_name, value |-> field_message])
            /\ error' = error
            /\ IF vpos < Len(leaders)
               THEN /\ vpos' = vpos + 1
                    /\ StartVariant
                    /\ UNCHANGED <<cmd_pc, sent>>
               ELSE /\ sent' = Append(sent, EmbedMessage(days, embed'))
                    /\ cmd_pc' = "done"
                    /\ UNCHANGED <<vpos, rankVars>>
    /\ UNCHANGED <<guild, days, rpc_calls, rpc_status, leaders>>
    /\ UNCHANGED <<storeVars, msgVars>>

InitLeaders ==
    /\ guild = Users
    /\ cmd_pc = "idle"
    /\ days = 10
    /\ rpc_calls = 0
    /\ rpc_status = 0
    /\ leaders = <<>>
    /\ vpos = 0
    /\ cpos = 0
    /\ inner = "running"
    /\ field_message = <<>>
    /\ medals_awarded = 0
    /\ next_medal = 0
    /\ num_tied = 1
    /\ last_successes = sys_maxsize
    /\ last_guesses = 0
    /\ embed = <<>>
    /\ sent = <<>>
    /\ error = "none"

NextLeaders ==
    \/ \E d \in DaysInputs, g \in Guilds : LeadersInvoke(d, g)
    \/ \E response \in LeaderResponses : LeadersRead(response)
    \/ RankStep
    \/ EndVariant


(***************************************************************************)
(* Claims about the leaders command, checked under Spec.                   *)
(***************************************************************************)
Rank(medal) == CHOOSE r \in 1..Len(medal_emojis) : medal_emojis[r] = medal

\* A tie: equal successes and equal avg_guesses.
Tied(a, b) == a.successes = b.successes /\ a.avg_guesses = b.avg_guesses

\* Every entry of a field has rank 1 + the number of entries before its tie group.
GroupRanked(f) ==
    \A i \in 1..Len(f) :
        Rank(f[i].medal) = 1 + Cardinality({j \in 1..(i - 1) : ~Tied(f[j], f[i])})

Candidate(u, s, a) == [key |-> u, val |-> [successes |-> s, avg_guesses |-> a]]

Entry(r, u, s, a) ==
    [medal |-> medal_emojis[r], user_id |-> u, successes |-> s, avg_guesses |-> a]

ExampleLeaders ==
    << [key |-> "Wordle",
        val |-> << Candidate("A", 10, 6), Candidate("B", 10, 6),
                   Candidate("C", 9, 5),  Candidate("D", 8, 8) >>] >>

ExampleField ==
    [name  |-> "Wordle",
     value |-> << Entry(1, "A", 10, 6), Entry(1, "B", 10, 6), Entry(3, "C", 9, 5) >>]

Finished == cmd_pc \in {"done", "error"}

\* C1: every tie group is emitted at one rank, the first at rank 1 and each
\* later one at 1 + the number emitted before it; for A(10, 3.0), B(10, 3.0),
\* C(9, 2.5), D(8, 4.0) the command's output is A and B at rank 1, C at rank 3,
\* without D.
C1_TieGroupsShareRank ==
    /\ GroupRanked(field_message)
    /\ \A i \in 1..Len(embed) : GroupRanked(embed[i].value)
    /\ (leaders = ExampleLeaders /\ guild = Users /\ Finished)
          => /\ cmd_pc = "done"
             /\ sent = <<EmbedMessage(days, <<ExampleField>>)>>

\* C7: days outside 1..30 gets a validation message and no read_leaders call;
\* days in 1..30 is accepted and the store is read.
C7_DaysValidated ==
    cmd_pc # "idle" =>
        IF days \in 1..30
        THEN \/ cmd_pc = "reading" /\ rpc_calls = 0 /\ sent = <<>>
             \/ rpc_calls = 1
        ELSE /\ rpc_calls = 0
             /\ cmd_pc = "done"
             /\ Len(sent) = 1
             /\ sent[1].text \in
                    {"The number of days must be greater than or equal to 1.",
                     "The number of days must be less than or equal to 30."}

C7_Witness == days = 30 /\ rpc_calls = 1

\* C8: after a non-success response the command reports that no data is
\* available: it does not fail, and it does not answer as for an empty result.
C8_NoDataReported ==
    rpc_status \notin {0, 200} =>
        /\ cmd_pc = "done"
        /\ error = "none"
        /\ Len(sent) = 1
        /\ sent[1].text \notin {"", "There are no leaders. Play more!"}

\* C9: in every variant's candidates as read_leaders returns them, of any two
\* the earlier has more successes, or as many and an avg_guesses no higher.
C9_CanonicalOrder ==
    \A v \in 1..Len(leaders) :
        \A i, j \in 1..Len(leaders[v].val) :
            i < j =>
                LET a == leaders[v].val[i].val
                    b == leaders[v].val[j].val
                IN  \/ a.successes > b.successes
                    \/ a.successes = b.successes /\ a.avg_guesses <= b.avg_guesses

\* The inner loop ended with candidates left.
StoppedEarly ==
    /\ vpos >= 1
    /\ cpos <= Len(variant_leaders)
    /\ (inner = "break" \/ cmd_pc = "error")

\* C10: the ranking loop stops exactly when a candidate starts a new group
\* while more than 3 candidates have been emitted, and that candidate and all
\* after it are absent from the output.
C10_StopsAfterThree ==
    /\ StoppedEarly =>
          /\ Len(field_message) > 3
          /\ \A k \in cpos..Len(variant_leaders) :
                \A i \in 1..Len(field_message) :
                    field_message[i].user_id # variant_leaders[k].key
    /\ \A i \in 5..Len(field_message) : Tied(field_message[i - 1], field_message[i])

(***************************************************************************)
(* Message text.  A text is the sequence of its code points: an ASCII      *)
(* character stands for itself, any other code point is written "U+XXXX".  *)
(***************************************************************************)
Digits == <<"0", "1", "2", "3", "4", "5", "6", "7", "8", "9">>

IsDigit(c) == \E i \in 1..Len(Digits) : Digits[i] = c

\* \s, as far as the texts of the model go
IsSpace(c) == c \in {" ", "\n", "\t"}

IsNewline(c) == c = "\n"

GreenSquare == "U+1F7E9"

RedSquare   == "U+1F7E5"

BlackSquare == "U+2B1B"

MutedSpeaker == "U+1F507"

SpeakerEmojis == {"U+1F508", "U+1F509", "U+1F50A", "U+1F507"}

GrimacingFace == "U+1F62C"

Stopwatch == "U+23F1"

\* int(s) of a string of digits
RECURSIVE DigitsToInt(_)
DigitsToInt(s) ==
    IF s = <<>> THEN 0
    ELSE DigitsToInt(SubSeq(s, 1, Len(s) - 1)) * 10
         + ((CHOOSE i \in 1..Len(Digits) : Digits[i] = s[Len(s)]) - 1)

\* A value given for `guesses`: the text of a capture group, or an int.
PyStr(s) == [is_str |-> TRUE, str |-> s, int |-> 0]

PyInt(n) == [is_str |-> FALSE, str |-> <<>>, int |-> n]

\* int(guesses)
ToInt(v) == IF v.is_str THEN DigitsToInt(v.str) ELSE v.int

\* common.Result.__init__: only guesses is converted; time_secs is <<>> for
\* None and <<x>> for the float x.
Result(iteration, success, guesses, time_secs, difficulty) ==
    [iteration  |-> iteration,
     success    |-> success,
     guesses    |-> ToInt(guesses),
     time_secs  |-> time_secs,
     difficulty |-> difficulty]

\* float(s) of digits with an optional fraction, held in tenths (35.5 is 355);
\* the texts of the model have at most one digit of fraction.
ToFloat(whole, frac) ==
    DigitsToInt(whole) * 10 + (IF frac = <<>> THEN 0 ELSE DigitsToInt(<<frac[1]>>))

\* What a parse method does: return None, return a Result, or raise.
ReturnsNone == [raised |-> "none", result |-> <<>>]

Returns(r) == [raised |-> "none", result |-> <<r>>]

Raises(exc) == [raised |-> exc, result |-> <<>>]

(***************************************************************************)
(* Regular expressions, matched as re.Pattern.match does: from the start   *)
(* of the text, greedy.  A match is <<groups>>, no match is <<>>.          *)
(***************************************************************************)
\* the literal lit stands at position p
HasLit(t, p, lit) ==
    /\ p + Len(lit) - 1 <= Len(t)
    /\ SubSeq(t, p, p + Len(lit) - 1) = lit

\* the code point at p, "" past the end
At(t, p) == IF p \in 1..Len(t) THEN t[p] ELSE ""

\* \d+ from p on: the position after the run (p when there is none)
RECURSIVE DigitsEnd(_, _)
DigitsEnd(t, p) == IF p <= Len(t) /\ IsDigit(t[p]) THEN DigitsEnd(t, p + 1) ELSE p

\* \D+
RECURSIVE NonDigitsEnd(_, _)
NonDigitsEnd(t, p) == IF p <= Len(t) /\ ~IsDigit(t[p]) THEN NonDigitsEnd(t, p + 1) ELSE p

\* \s+
RECURSIVE SpacesEnd(_, _)
SpacesEnd(t, p) == IF p <= Len(t) /\ IsSpace(t[p]) THEN SpacesEnd(t, p + 1) ELSE p

\* \n+
RECURSIVE NewlinesEnd(_, _)
NewlinesEnd(t, p) == IF p <= Len(t) /\ IsNewline(t[p]) THEN NewlinesEnd(t, p + 1) ELSE p

\* .* (a dot matches anything but a newline)
RECURSIVE LineEnd(_, _)
LineEnd(t, p) == IF p <= Len(t) /\ ~IsNewline(t[p]) THEN LineEnd(t, p + 1) ELSE p

\* (?P<guesses>\d+|X) from p on: the position after it (p when it fails)
GuessesEnd(t, p) == IF At(t, p) = "X" THEN p + 1 ELSE DigitsEnd(t, p)

\* The pattern of the standard variants:
\*   <lit> [\D+] (?P<iteration>\d+) ' ' (?P<guesses>\d+|X) '/' \d (?P<hard>\*?)
\* nondigits: a \D+ stands between the literal and the iteration;
\* star: the hard group is \*? after the pattern (it is empty otherwise).
StandardMatch(t, lit, nondigits, star) ==
    LET a == Len(lit) + 1
        b == IF nondigits THEN NonDigitsEnd(t, a) ELSE a
        c == DigitsEnd(t, b)
        d == GuessesEnd(t, c + 1)
    IN  IF /\ HasLit(t, 1, lit)
           /\ (nondigits => b > a)
           /\ c > b
           /\ At(t, c) = " "
           /\ d > c + 1
           /\ At(t, d) = "/"
           /\ IsDigit(At(t, d + 1))
        THEN << [iteration |-> SubSeq(t, b, c - 1),
                 guesses   |-> SubSeq(t, c + 1, d - 1),
                 hard      |-> IF star /\ At(t, d + 2) = "*" THEN <<"*">> ELSE <<>>] >>
        ELSE <<>>

WordleLit == <<"W", "o", "r", "d", "l", "e", " ">>

WorldleLit == <<"#", "W", "o", "r", "l", "d", "l", "e", " ", "#">>

FlagleLit == <<"#", "F", "l", "a", "g", "l", "e", " ", "#">>

LewdleLit == <<"L", "e", "w", "d", "l", "e", " ">>

WerdelLit == <<"D", "a", "i", "l", "y", " ", "w", "U+025C", "U+02D0", "d", "U+0259", "l", " ", "#">>

\* 'Wordle (?P<iteration>\d+) (?P<guesses>\d+|X)/\d(?P<hard>\*?)'
Wordle_matcher(t) == StandardMatch(t, WordleLit, FALSE, TRUE)

\* '\#Worldle \#(?P<iteration>\d+) (?P<guesses>\d+|X)/\d(?P<hard>)'
Worldle_matcher(t) == StandardMatch(t, WorldleLit, FALSE, FALSE)

\* '\#Flagle \#(?P<iteration>\d+) (?P<guesses>\d+|X)(?P<hard>)/\d'
Flagle_matcher(t) == StandardMatch(t, FlagleLit, FALSE, FALSE)

\* 'Lewdle \D+(?P<iteration>\d+) (?P<guesses>\d+|X)(?P<hard>)/\d'
Lewdle_matcher(t) == StandardMatch(t, LewdleLit, TRUE, FALSE)

\* 'Daily <name> \#(?P<iteration>\d+) (?P<guesses>\d+|X)/\d(?P<hard>)'
Werdel_matcher(t) == StandardMatch(t, WerdelLit, FALSE, FALSE)

StandardVariants == {"Wordle", "Worldle", "Flagle", "Lewdle", "Werdel"}

\* _StandardVariant._matcher of each subclass
StandardMatcher(name, t) ==
    CASE name = "Wordle"  -> Wordle_matcher(t)
      [] name = "Worldle" -> Worldle_matcher(t)
      [] name = "Flagle"  -> Flagle_matcher(t)
      [] name = "Lewdle"  -> Lewdle_matcher(t)
      [] name = "Werdel"  -> Werdel_matcher(t)

\* _StandardVariant._max_guesses, overridden by Werdel
MaxGuesses(name) == IF name = "Werdel" THEN 8 ELSE 6

\* As _StandardVariant.parse would be if a failure counted six guesses for
\* every variant.
StandardVariant_parse_sixonfail(name, content) ==
    LET match == StandardMatcher(name, content)
    IN  IF match = <<>> THEN ReturnsNone
        ELSE LET success == match[1].guesses # <<"X">>
             IN  Returns(Result(match[1].iteration, success,
                                IF success THEN PyStr(match[1].guesses) ELSE PyInt(6), <<>>,
                                IF match[1].hard = <<"*">> THEN "hard" ELSE ""))

\* _StandardVariant.parse (variants.py 89-103)
StandardVariant_parse(name, content) ==
    LET match == StandardMatcher(name, content)
    IN  IF match = <<>> THEN ReturnsNone
        ELSE LET iteration  == match[1].iteration
                 success    == match[1].guesses # <<"X">>
                 guesses    == IF success THEN PyStr(match[1].guesses)
                                          ELSE PyInt(MaxGuesses(name))
                 difficulty == IF match[1].hard = <<"*">> THEN "hard" ELSE ""
             IN  Returns(Result(iteration, success, guesses, <<>>, difficulty))

(***************************************************************************)
(* The variants with a parse method of their own.                          *)
(***************************************************************************)
\* s.find(c) for a single code point c: the 0-based index, -1 when absent
Find(s, c) ==
    IF \E i \in 1..Len(s) : s[i] = c
    THEN (CHOOSE i \in 1..Len(s) : s[i] = c /\ \A j \in 1..(i - 1) : s[j] # c) - 1
    ELSE -1

\* c in s
Contains(s, c) == \E i \in 1..Len(s) : s[i] = c

\* s.replace(c, '')
RECURSIVE Without(_, _)
Without(s, c) ==
    IF s = <<>> THEN <<>>
    ELSE IF Head(s) = c THEN Without(Tail(s), c)
    ELSE <<Head(s)>> \o Without(Tail(s), c)

BTSHeardleLit == <<"#", "B", "T", "S", "H", "e", "a", "r", "d", "l", "e">>

\* '\#BTSHeardle(?P<iteration>\d+)\s+(?P<guesses>\d+|X)/\d'
BTSHeardle_matcher(t) ==
    LET a == Len(BTSHeardleLit) + 1
        b == DigitsEnd(t, a)
        c == SpacesEnd(t, b)
        d == GuessesEnd(t, c)
    IN  IF /\ HasLit(t, 1, BTSHeardleLit)
           /\ b > a
           /\ c > b
           /\ d > c
           /\ At(t, d) = "/"
           /\ IsDigit(At(t, d + 1))
        THEN << [iteration |-> SubSeq(t, a, b - 1), guesses |-> SubSeq(t, c, d - 1)] >>
        ELSE <<>>

\* BTSHeardle.parse (variants.py 125-134)
BTSHeardle_parse(content) ==
    LET match == BTSHeardle_matcher(content)
    IN  IF match = <<>> THEN ReturnsNone
        ELSE LET success == match[1].guesses # <<"X">>
                 guesses == IF success THEN PyStr(match[1].guesses) ELSE PyInt(7)
             IN  Returns(Result(match[1].iteration, success, guesses, <<>>, None))

ChronoLit == <<"C", "h", "r", "o", "n", "o", " ", "#">>

Chrono_medals == <<"U+1F947", "U+1F948", "U+1F949">>

\* 'Chrono \#(?P<iteration>\d+).*\n+(?P<medal>[<medals><grimace>]).*\n<stopwatch>:\s+
\*  (?P<time_secs>\d+(\.\d+)?)'
Chrono_matcher(t) ==
    LET a == Len(ChronoLit) + 1
        b == DigitsEnd(t, a)
        c == LineEnd(t, b)
        d == NewlinesEnd(t, c)
        e == LineEnd(t, d + 1)
        f == SpacesEnd(t, e + 3)
        g == DigitsEnd(t, f)
        h == IF At(t, g) = "." /\ DigitsEnd(t, g + 1) > g + 1 THEN DigitsEnd(t, g + 1) ELSE g
    IN  IF /\ HasLit(t, 1, ChronoLit)
           /\ b > a
           /\ d > c
           /\ (Contains(Chrono_medals, At(t, d)) \/ At(t, d) = GrimacingFace)
           /\ HasLit(t, e, <<"\n", Stopwatch, ":">>)
           /\ f > e + 3
           /\ g > f
        THEN << [iteration |-> SubSeq(t, a, b - 1),
                 medal     |-> t[d],
                 whole     |-> SubSeq(t, f, g - 1),
                 frac      |-> SubSeq(t, g + 1, h - 1)] >>
        ELSE <<>>

\* Chrono.parse (variants.py 159-169)
Chrono_parse(content) ==
    LET match == Chrono_matcher(content)
    IN  IF match = <<>> THEN ReturnsNone
        ELSE LET success == match[1].medal # GrimacingFace
                 guesses == IF success THEN PyInt(Find(Chrono_medals, match[1].medal) + 1)
                                       ELSE PyInt(3)
                 time_secs == ToFloat(match[1].whole, match[1].frac)
             IN  Returns(Result(match[1].iteration, success, guesses, <<time_secs>>, None))

FramedLit == <<"F", "r", "a", "m", "e", "d", " ", "#">>

IsFramedEmoji(c) == c \in {RedSquare, GreenSquare, " "}

RECURSIVE FramedEmojisEnd(_, _)
FramedEmojisEnd(t, p) ==
    IF p <= Len(t) /\ IsFramedEmoji(t[p]) THEN FramedEmojisEnd(t, p + 1) ELSE p

\* 'Framed \#(?P<iteration>\d+)\n+.*?(?P<guess_emojis>[<red><green> ]+)'
Framed_matcher(t) ==
    LET a == Len(FramedLit) + 1
        b == DigitsEnd(t, a)
        c == NewlinesEnd(t, b)
        eol == LineEnd(t, c)
        starts == {p \in c..(eol - 1) : IsFramedEmoji(t[p])}
    IN  IF /\ HasLit(t, 1, FramedLit)
           /\ b > a
           /\ c > b
           /\ starts # {}
        THEN LET d == CHOOSE p \in starts : \A q \in starts : p <= q
             IN  << [iteration    |-> SubSeq(t, a, b - 1),
                     guess_emojis |-> SubSeq(t, d, FramedEmojisEnd(t, d) - 1)] >>
        ELSE <<>>

\* Framed.parse (variants.py 217-226)
Framed_parse(content) ==
    LET match == Framed_matcher(content)
    IN  IF match = <<>> THEN ReturnsNone
        ELSE LET success == Contains(match[1].guess_emojis, GreenSquare)
                 guesses == IF success
                            THEN PyInt(Find(Without(match[1].guess_emojis, " "), GreenSquare) + 1)
                            ELSE PyInt(6)
             IN  Returns(Result(match[1].iteration, success, guesses, <<>>, None))

HeardleLit == <<"#", "H", "e", "a", "r", "d", "l", "e", " ", "#">>

\* '\#Heardle \#(?P<iteration>\d+)\n+(?P<success>[<speakers>])(?P<guess_emojis>.*)'
Heardle_matcher(t) ==
    LET a == Len(HeardleLit) + 1
        b == DigitsEnd(t, a)
        c == NewlinesEnd(t, b)
    IN  IF /\ HasLit(t, 1, HeardleLit)
           /\ b > a
           /\ c > b
           /\ At(t, c) \in SpeakerEmojis
        THEN << [iteration    |-> SubSeq(t, a, b - 1),
                 success      |-> t[c],
                 guess_emojis |-> SubSeq(t, c + 1, LineEnd(t, c + 1) - 1)] >>
        ELSE <<>>

\* Heardle.parse (variants.py 248-257): str.index raises ValueError when the
\* green square is not there.
Heardle_parse(content) ==
    LET match == Heardle_matcher(content)
    IN  IF match = <<>> THEN ReturnsNone
        ELSE LET success == match[1].success # MutedSpeaker
             IN  IF success /\ ~Contains(match[1].guess_emojis, GreenSquare)
                 THEN Raises("ValueError")
                 ELSE LET guesses == IF success
                                     THEN PyInt(Find(match[1].guess_emojis, GreenSquare) + 1)
                                     ELSE PyInt(6)
                      IN  Returns(Result(match[1].iteration, success, guesses, <<>>, None))

SemantleSolvedLit == <<"I", " ", "s", "o", "l", "v", "e", "d", " ", "S", "e", "m", "a", "n", "t", "l", "e", " ", "#">>

SemantleInLit == <<" ", "i", "n", " ">>

SemantleGuessesLit == <<" ", "g", "u", "e", "s", "s", "e", "s">>

SemantleGotLit == <<"I", " ", "g", "o", "t", " ", "S", "e", "m", "a", "n", "t", "l", "e", " ">>

SemantleFirstLit == <<" ", "o", "n", " ", "m", "y", " ", "f", "i", "r", "s", "t", " ", "g", "u", "e", "s", "s", "!">>

\* 'I solved Semantle \#(?P<iteration>\d+) in (?P<guesses>\d+) guesses.'
Semantle_matcher(t) ==
    LET a == Len(SemantleSolvedLit) + 1
        b == DigitsEnd(t, a)
        c == b + Len(SemantleInLit)
        d == DigitsEnd(t, c)
        e == d + Len(SemantleGuessesLit)
    IN  IF /\ HasLit(t, 1, SemantleSolvedLit)
           /\ b > a
           /\ HasLit(t, b, SemantleInLit)
           /\ d > c
           /\ HasLit(t, d, SemantleGuessesLit)
           /\ e <= Len(t)
           /\ ~IsNewline(t[e])
        THEN << [iteration |-> SubSeq(t, a, b - 1), guesses |-> SubSeq(t, c, d - 1)] >>
        ELSE <<>>

\* 'I got Semantle (?P<iteration>\d+) on my first guess!'
Semantle_first_guess_matcher(t) ==
    LET a == Len(SemantleGotLit) + 1
        b == DigitsEnd(t, a)
    IN  IF /\ HasLit(t, 1, SemantleGotLit)
           /\ b > a
           /\ HasLit(t, b, SemantleFirstLit)
        THEN << [iteration |-> SubSeq(t, a, b - 1)] >>
        ELSE <<>>

\* Semantle.parse (variants.py 302-317)
Semantle_parse(content) ==
    LET match == Semantle_matcher(content)
        first == Semantle_first_guess_matcher(content)
    IN  IF match # <<>>
        THEN Returns(Result(match[1].iteration, TRUE, PyStr(match[1].guesses), <<>>, None))
        ELSE IF first # <<>>
        THEN Returns(Result(first[1].iteration, TRUE, PyInt(1), <<>>, None))
        ELSE ReturnsNone

YeardleLit == <<"#", "Y", "e", "a", "r", "d", "l", "e", " ", "#">>

\* '\#Yeardle \#(?P<iteration>\d+)\n+(?P<guess_emojis>.*)'
Yeardle_matcher(t) ==
    LET a == Len(YeardleLit) + 1
        b == DigitsEnd(t, a)
        c == NewlinesEnd(t, b)
    IN  IF /\ HasLit(t, 1, YeardleLit)
           /\ b > a
           /\ c > b
        THEN << [iteration    |-> SubSeq(t, a, b - 1),
                 guess_emojis |-> SubSeq(t, c, LineEnd(t, c) - 1)] >>
        ELSE <<>>

\* Yeardle.parse (variants.py 402-415)
Yeardle_parse(content) ==
    LET match == Yeardle_matcher(content)
    IN  IF match = <<>> THEN ReturnsNone
        ELSE LET guesses == Find(match[1].guess_emojis, GreenSquare) + 1
             IN  IF guesses > 0
                 THEN Returns(Result(match[1].iteration, TRUE, PyInt(guesses), <<>>, None))
                 ELSE Returns(Result(match[1].iteration, FALSE, PyInt(8), <<>>, None))

\* variant.parse(content) for the variant of that name
Parse(name, content) ==
    CASE name \in StandardVariants -> StandardVariant_parse(name, content)
      [] name = "BTSHeardle" -> BTSHeardle_parse(content)
      [] name = "Chrono"     -> Chrono_parse(content)
      [] name = "Framed"     -> Framed_parse(content)
      [] name = "Heardle"    -> Heardle_parse(content)
      [] name = "Semantle"   -> Semantle_parse(content)
      [] name = "Yeardle"    -> Yeardle_parse(content)

(***************************************************************************)
(* The stores (storage.py).                                                *)
(***************************************************************************)
MaxRecords == 3       \* record_result calls in one behaviour

\* storage.VariantStats
VariantStats(attempts_, successes, guess_distribution, total_time_secs) ==
    [attempts           |-> attempts_,
     successes          |-> successes,
     guess_distribution |-> guess_distribution,
     total_time_secs    |-> total_time_secs]

\* dict(sorted(d.items())): the items in ascending order of their keys
RECURSIVE SortedItems(_)
SortedItems(items) ==
    IF items = <<>> THEN <<>>
    ELSE LET front == SortedItems(SubSeq(items, 1, Len(items) - 1))
             x     == items[Len(items)]
             n     == Cardinality({i \in 1..Len(front) : front[i].key <= x.key})
         IN  SubSeq(front, 1, n) \o <<x>> \o SubSeq(front, n + 1, Len(front))

\* InMemoryStore.__init__: an empty dict for every variant
InMemoryStore_init == [i \in 1..Len(VariantNames) |-> [key |-> VariantNames[i], val |-> <<>>]]

\* InMemoryStore.record_result (storage.py 40-45): self.results afterwards
InMemoryStore_record_result(self_results, variant, user_id, result) ==
    IF ~DictHas(self_results, variant) THEN self_results
    ELSE LET with == DictSetDefault(DictGet(self_results, variant), user_id, <<>>)
         IN  DictSet(self_results, variant,
                     DictSet(with, user_id, Append(DictGet(with, user_id), result)))

\* the loop of storage.py 68-69
RECURSIVE CountGuesses(_, _)
CountGuesses(variant_results, unsorted_distribution) ==
    IF variant_results = <<>> THEN unsorted_distribution
    ELSE LET result == Head(variant_results)
             with   == DictSetDefault(unsorted_distribution, result.guesses, 0)
         IN  CountGuesses(Tail(variant_results),
                 DictSet(with, result.guesses, DictGet(with, result.guesses) + 1))

\* storage.py 63-73: the stats of one variant's results
InMemoryStats(variant_results) ==
    VariantStats(Len(variant_results),
                 Cardinality({i \in 1..Len(variant_results) : variant_results[i].success}),
                 SortedItems(CountGuesses(variant_results, <<>>)),
                 0)

\* InMemoryStore.read_user_stats (storage.py 53-75)
RECURSIVE InMemoryUserStats(_, _, _)
InMemoryUserStats(items, user_id, all_stats) ==
    IF items = <<>> THEN all_stats
    ELSE LET variant_results == Head(items).val
         IN  InMemoryUserStats(Tail(items), user_id,
                 IF ~DictHas(variant_results, user_id) THEN all_stats
                 ELSE DictSet(all_stats, Head(items).key,
                              InMemoryStats(DictGet(variant_results, user_id))))

InMemoryStore_read_user_stats(self_results, user_id) ==
    ReturnDict(InMemoryUserStats(self_results, user_id, <<>>))

\* SupabaseStore.record_result (storage.py 82-91): the row it upserts
AttemptRow(variant, user_id, result) ==
    [variant    |-> variant,
     user_id    |-> user_id,
     iteration  |-> result.iteration,
     guesses    |-> result.guesses,
     success    |-> result.success,
     time_secs  |-> result.time_secs,
     difficulty |-> result.difficulty]

SameAttempt(a, b) ==
    a.variant = b.variant /\ a.user_id = b.user_id /\ a.iteration = b.iteration

\* table("Attempts").upsert(row): the table is keyed by (variant, user_id,
\* iteration); a row of the same key is replaced.
Upsert(table, row) == {r \in table : ~SameAttempt(r, row)} \cup {row}

SupabaseStore_record_result(table, variant, user_id, result) ==
    Upsert(table, AttemptRow(variant, user_id, result))

\* The 'read_user_stats' RPC: one row for each (variant, guesses, success) of
\* the user's attempts, total the number of them, time_secs the sum of theirs
\* (None when none has any).
StatGroup(table, uid, variant, guesses, success) ==
    {r \in table : r.user_id = uid /\ r.variant = variant
                   /\ r.guesses = guesses /\ r.success = success}

RECURSIVE SumTime(_)
SumTime(rows) ==
    IF rows = {} THEN 0
    ELSE LET r == CHOOSE x \in rows : TRUE
         IN  (IF r.time_secs = <<>> THEN 0 ELSE r.time_secs[1]) + SumTime(rows \ {r})

StatRows(table, uid) ==
    {[variant   |-> r.variant,
      guesses   |-> r.guesses,
      success   |-> r.success,
      total     |-> Cardinality(StatGroup(table, uid, r.variant, r.guesses, r.success)),
      time_secs |-> LET g == StatGroup(table, uid, r.variant, r.guesses, r.success)
                    IN  IF \A x \in g : x.time_secs = <<>> THEN <<>> ELSE <<SumTime(g)>>]
        : r \in {x \in table : x.user_id = uid}}

\* the rows in any order
Orderings(S) ==
    {f \in [1..Cardinality(S) -> S] : \A i, j \in 1..Cardinality(S) : f[i] = f[j] => i = j}

StatRow(variant, guesses, success, total, time_secs) ==
    [variant |-> variant, guesses |-> guesses, success |-> success, total |-> total,
     time_secs |-> time_secs]

\* rows that repeat a (variant, guesses, success): the code adds them up
RepeatedStatRows ==
    << StatRow("Wordle", 3, TRUE, 2, <<>>), StatRow("Heardle", 6, FALSE, 1, <<>>),
       StatRow("Wordle", 3, TRUE, 1, <<355>>), StatRow("Wordle", 6, TRUE, 1, <<>>) >>

UserStatsResponses(table, uid) ==
    {[status_code |-> 500, json |-> <<>>], [status_code |-> 200, json |-> RepeatedStatRows]}
    \cup {[status_code |-> 200, json |-> rows] : rows \in Orderings(StatRows(table, uid))}

\* As the loop of storage.py 123-131 would be if it counted rows in the
\* distribution, not their totals.
RECURSIVE CollectStats_countrows(_, _)
CollectStats_countrows(rows, all_stats) ==
    IF rows = <<>> THEN all_stats
    ELSE LET row   == Head(rows)
             with  == DictSetDefault(all_stats, row.variant, VariantStats(0, 0, <<>>, 0))
             stats == DictGet(with, row.variant)
             dist  == DictSetDefault(stats.guess_distribution, row.guesses, 0)
         IN  CollectStats_countrows(Tail(rows),
                 DictSet(with, row.variant,
                     VariantStats(
                         stats.attempts + row.total,
                         IF row.success THEN stats.successes + row.total ELSE stats.successes,
                         DictSet(dist, row.guesses, DictGet(dist, row.guesses) + 1),
                         stats.total_time_secs)))

\* the loop of storage.py 123-131
RECURSIVE CollectStats(_, _)
CollectStats(rows, all_stats) ==
    IF rows = <<>> THEN all_stats
    ELSE LET row   == Head(rows)
             with  == DictSetDefault(all_stats, row.variant, VariantStats(0, 0, <<>>, 0))
             stats == DictGet(with, row.variant)
             dist  == DictSetDefault(stats.guess_distribution, row.guesses, 0)
         IN  CollectStats(Tail(rows),
                 DictSet(with, row.variant,
                     VariantStats(
                         stats.attempts + row.total,
                         IF row.success THEN stats.successes + row.total ELSE stats.successes,
                         DictSet(dist, row.guesses, DictGet(dist, row.guesses) + row.total),
                         IF row.time_secs # <<>> /\ row.time_secs # <<0>>
                         THEN stats.total_time_secs + row.time_secs[1]
                         ELSE stats.total_time_secs)))

\* SupabaseStore.read_user_stats (storage.py 118-136)
SupabaseStore_read_user_stats(response) ==
    IF response.status_code # 200 THEN ReturnNone
    ELSE LET all_stats == CollectStats(response.json, <<>>)
         IN  ReturnDict([i \in 1..Len(all_stats) |->
                 [key |-> all_stats[i].key,
                  val |-> VariantStats(all_stats[i].val.attempts,
                                       all_stats[i].val.successes,
                                       SortedItems(all_stats[i].val.guess_distribution),
                                       all_stats[i].val.total_time_secs)]])

\* What the model records and whom for.
StoreUsers == {"A", "B"}

SupabaseVariants == {"Wordle", "Heardle"}

\* "Bogus" is no variant of the registry.
InMemoryVariants == {"Wordle", "Bogus"}

StoreResults ==
    { Result(<<"1">>, TRUE,  PyInt(3), <<>>,    ""),
      Result(<<"1">>, FALSE, PyInt(6), <<>>,    ""),
      Result(<<"2">>, TRUE,  PyInt(6), <<355>>, ""),
      Result(<<"2">>, FALSE, PyInt(6), <<>>,    "") }

NoResponse == [status_code |-> 0, json |-> <<>>]

Call(method, user_id, response) ==
    [method |-> method, user_id |-> user_id, response |-> response]

\* store.record_result(...) of the SupabaseStore, with the history of the calls.
SupabaseRecordResult(variant, user_id, result) ==
    /\ attempts' = SupabaseStore_record_result(attempts, variant, user_id, result)
    /\ sb_written' =
          {w \in sb_written :
              ~(w.variant = variant /\ w.user_id = user_id
                /\ w.result.iteration = result.iteration)}
          \cup {[variant |-> variant, user_id |-> user_id, result |-> result]}
    /\ sb_replaced' =
          (sb_replaced \/ \E w \in sb_written :
                             /\ w.variant = variant /\ w.user_id = user_id
                             /\ w.result.iteration = result.iteration
                             /\ w.result.guesses # result.guesses)

SupabaseRecord(variant, user_id, result) ==
    /\ n_records < MaxRecords
    /\ n_records' = n_records + 1
    /\ SupabaseRecordResult(variant, user_id, result)
    /\ store_ret' = ReturnNone
    /\ call' = Call("SupabaseStore.record_result", user_id, NoResponse)
    /\ UNCHANGED <<results, mem_calls, stats_sent, stats_error>>
    /\ UNCHANGED <<leaderVars, msgVars>>

InMemoryRecord(variant, user_id, result) ==
    /\ n_records < MaxRecords
    /\ n_records' = n_records + 1
    /\ results' = InMemoryStore_record_result(results, variant, user_id, result)
    /\ mem_calls' = [mem_calls EXCEPT ![<<variant, user_id>>] = @ + 1]
    /\ store_ret' = ReturnNone
    /\ call' = Call("InMemoryStore.record_result", user_id, NoResponse)
    /\ UNCHANGED <<attempts, sb_written, sb_replaced, stats_sent, stats_error>>
    /\ UNCHANGED <<leaderVars, msgVars>>

InMemoryReadUserStats(user_id) ==
    /\ store_ret' = InMemoryStore_read_user_stats(results, user_id)
    /\ call' = Call("InMemoryStore.read_user_stats", user_id, NoResponse)
    /\ UNCHANGED <<attempts, sb_written, sb_replaced, results, mem_calls, n_records,
                   stats_sent, stats_error>>
    /\ UNCHANGED <<leaderVars, msgVars>>

\* The first exception the loop of lines 140-146 raises over these stats, or
\* "none".  name= is evaluated before value=, the division before the
\* attribute access.
RECURSIVE StatsFieldsError(_)
StatsFieldsError(items) ==
    IF items = <<>> THEN "none"
    ELSE LET variant_stats == Head(items).val
         IN  IF ~IsVariant(Head(items).key) THEN "KeyError"
             ELSE IF variant_stats.attempts = 0 THEN "ZeroDivisionError"
             ELSE IF "distribution" \notin DOMAIN variant_stats THEN "AttributeError"
             ELSE StatsFieldsError(Tail(items))

\* The stats user command (leaderbordle.py 130-148), over the SupabaseStore.
StatsCommand(user_id, response) ==
    /\ store_ret' = SupabaseStore_read_user_stats(response)
    /\ call' = Call("SupabaseStore.read_user_stats", user_id, response)
    /\ IF store_ret'.is_none
       THEN \* len(None)
            /\ stats_error' = "TypeError"
            /\ stats_sent' = <<>>
       ELSE IF Len(store_ret'.items) = 0
       THEN /\ stats_error' = "none"
            /\ stats_sent' = <<TextMessage("has no *dle stats. Play more!")>>
       ELSE /\ stats_error' = StatsFieldsError(store_ret'.items)
            /\ stats_sent' = IF stats_error' = "none"
                             THEN <<EmbedMessage(0, store_ret'.items)>>
                             ELSE <<>>
    /\ UNCHANGED <<attempts, sb_written, sb_replaced, results, mem_calls, n_records>>
    /\ UNCHANGED <<leaderVars, msgVars>>

InitStore ==
    /\ attempts = {}
    /\ sb_written = {}
    /\ sb_replaced = FALSE
    /\ results = InMemoryStore_init
    /\ mem_calls = [k \in InMemoryVariants \X StoreUsers |-> 0]
    /\ n_records = 0
    /\ store_ret = ReturnNone
    /\ call = Call("none", "", NoResponse)
    /\ stats_sent = <<>>
    /\ stats_error = "none"

NextStore ==
    \/ \E v \in SupabaseVariants, u \in StoreUsers, r \in StoreResults : SupabaseRecord(v, u, r)
    \/ \E v \in InMemoryVariants, u \in StoreUsers, r \in StoreResults : InMemoryRecord(v, u, r)
    \/ \E u \in StoreUsers : InMemoryReadUserStats(u)
    \/ \E u \in StoreUsers : \E response \in UserStatsResponses(attempts, u) :
          StatsCommand(u, response)

(***************************************************************************)
(* The on_message handler (leaderbordle.py 29-44).                         *)
(***************************************************************************)
\* A message arrives.
OnMessage(text, user_id) ==
    /\ msg_pc = "idle"
    /\ msg_pc' = "parsing"
    /\ msg_content' = text
    /\ author' = user_id
    /\ vnext' = 1
    /\ was_parsed' = FALSE
    /\ UNCHANGED <<reactions, parsed, msg_error, commands_processed, attempts, sb_written, sb_replaced>>
    /\ UNCHANGED <<leaderVars, storeOnlyVars>>

\* lines 32-41: one pass of the loop over variants.values()
ParseStep ==
    /\ msg_pc = "parsing"
    /\ vnext <= Len(VariantNames)
    /\ LET name   == VariantNames[vnext]
           parse_ == Parse(name, msg_content)
       IN  IF parse_.raised # "none"
           THEN /\ msg_pc' = "error"
                /\ msg_error' = parse_.raised
                /\ UNCHANGED <<vnext, was_parsed, reactions, parsed, attempts, sb_written, sb_replaced>>
           ELSE IF parse_.result = <<>>
           THEN /\ vnext' = vnext + 1
                /\ UNCHANGED <<msg_pc, msg_error, was_parsed, reactions, parsed,
                               attempts, sb_written, sb_replaced>>
           ELSE /\ SupabaseRecordResult(name, author, parse_.result[1])
                /\ parsed' = Append(parsed, [variant |-> name, result |-> parse_.result[1]])
                /\ reactions' = reactions + 1
                /\ was_parsed' = TRUE
                /\ vnext' = vnext + 1
                /\ UNCHANGED <<msg_pc, msg_error>>
    /\ UNCHANGED <<msg_content, author, commands_processed>>
    /\ UNCHANGED <<leaderVars, storeOnlyVars>>

\* lines 43-44: after the loop
FinishMessage ==
    /\ msg_pc = "parsing"
    /\ vnext > Len(VariantNames)
    /\ msg_pc' = "done"
    /\ commands_processed' = ~was_parsed
    /\ UNCHANGED <<msg_content, author, vnext, was_parsed, reactions, parsed, msg_error,
                   attempts, sb_written, sb_replaced>>
    /\ UNCHANGED <<leaderVars, storeOnlyVars>>

InitMessage ==
    /\ msg_pc = "idle"
    /\ msg_content = <<>>
    /\ author = "A"
    /\ vnext = 1
    /\ was_parsed = FALSE
    /\ reactions = 0
    /\ parsed = <<>>
    /\ msg_error = "none"
    /\ commands_processed = FALSE

(***************************************************************************)
(* The message texts the model draws from: for every variant its share     *)
(* text with each part taken from a few well-formed and malformed values.  *)
(***************************************************************************)
IterationTexts == {<<"5">>, <<"5", "0", "0">>, <<>>}

GuessTexts == {<<"4">>, <<"X">>, <<"9">>, <<"0">>, <<"1", "2">>, <<"x">>}

OutOfTexts == {<<"/", "6">>, <<"/", "8">>, <<"/">>}

TailTexts == {<<>>, <<"*">>, <<"\n", GreenSquare>>}

StandardHeads ==
    {WordleLit, WorldleLit, FlagleLit, LewdleLit,
     LewdleLit \o <<"U+1F346", "U+1F4A6", " ">>, WerdelLit}

StandardTexts ==
    {h \o i \o <<" ">> \o g \o o \o tl :
        h \in StandardHeads, i \in IterationTexts, g \in GuessTexts,
        o \in OutOfTexts, tl \in TailTexts}

NewlineTexts == {<<"\n">>, <<"\n", "\n">>, <<>>}

SquareTexts ==
    {<<RedSquare, GreenSquare, BlackSquare>>, <<BlackSquare, BlackSquare>>, <<>>,
     <<GreenSquare>>, <<BlackSquare, "\n", GreenSquare>>}

HeardleTexts ==
    {HeardleLit \o i \o nl \o sp \o sq :
        i \in {<<"5">>, <<>>}, nl \in NewlineTexts,
        sp \in {<<s>> : s \in SpeakerEmojis} \cup {<<>>}, sq \in SquareTexts}

YeardleTexts ==
    {YeardleLit \o i \o nl \o sq :
        i \in {<<"5">>, <<>>}, nl \in NewlineTexts, sq \in SquareTexts}

FramedTexts ==
    {FramedLit \o i \o nl \o ld \o sq :
        i \in {<<"5">>, <<>>}, nl \in NewlineTexts,
        ld \in {<<>>, <<"U+1F3A5">>, <<"U+1F3A5", " ">>},
        sq \in {<<RedSquare, " ", RedSquare, " ", GreenSquare, " ", BlackSquare>>,
                <<RedSquare, " ", RedSquare>>, <<BlackSquare, " ", GreenSquare>>,
                <<GreenSquare>>, <<BlackSquare>>, <<>>}}

ChronoTexts ==
    {ChronoLit \o <<"1", "2">> \o r \o nl \o m \o <<" ", "U+1F7E2">> \o sw \o ws \o ts :
        r \in {<<>>, <<" ", "x">>}, nl \in {<<"\n">>, <<>>},
        m \in {<<"U+1F947">>, <<"U+1F948">>, <<"U+1F949">>, <<GrimacingFace>>, <<BlackSquare>>},
        sw \in {<<"\n", Stopwatch, ":">>, <<Stopwatch, ":">>},
        ws \in {<<" ">>, <<>>},
        ts \in {<<"3", "5">>, <<"3", "5", ".", "5">>, <<"3", ".">>, <<>>}}

BTSHeardleTexts ==
    {BTSHeardleLit \o i \o ws \o g \o o :
        i \in {<<"5">>, <<>>}, ws \in {<<" ">>, <<"\n">>, <<>>, <<" ", "#">>},
        g \in GuessTexts, o \in {<<"/", "7">>, <<"/">>}}

SemantleTexts ==
    {SemantleSolvedLit \o i \o SemantleInLit \o g \o SemantleGuessesLit \o e :
        i \in {<<"5">>, <<>>}, g \in {<<"1">>, <<"5", "7">>, <<"0">>, <<>>},
        e \in {<<".">>, <<"!">>, <<>>, <<"\n">>}}
    \cup {SemantleGotLit \o i \o e :
        i \in {<<"5">>, <<>>},
        e \in {SemantleFirstLit, SubSeq(SemantleFirstLit, 1, Len(SemantleFirstLit) - 1)}}

OtherTexts == {<<>>, <<"h", "i">>, <<"x">> \o WordleLit \o <<"5", " ", "4", "/", "6">>}

Texts ==
    StandardTexts \cup HeardleTexts \cup YeardleTexts \cup FramedTexts \cup ChronoTexts
    \cup BTSHeardleTexts \cup SemantleTexts \cup OtherTexts

MessageAuthors == {"A"}

NextMessage ==
    \/ \E text \in Texts, u \in MessageAuthors : OnMessage(text, u)
    \/ ParseStep
    \/ FinishMessage

(***************************************************************************)
(* The specifications.                                                     *)
(***************************************************************************)
vars == <<leaderVars, storeVars, msgVars>>

Init == InitLeaders /\ InitStore /\ InitMessage

\* the leaders command
Next == NextLeaders

Spec == Init /\ [][Next]_vars

\* the stores and the stats command
SpecStore == Init /\ [][NextStore]_vars

\* the on_message handler
SpecMessage == Init /\ [][NextMessage]_vars

(***************************************************************************)
(* Claims about the stores, checked under SpecStore.                       *)
(***************************************************************************)
\* the results InMemoryStore holds for a variant and a user
Held(variant, user_id) ==
    IF DictHas(results, variant) /\ DictHas(DictGet(results, variant), user_id)
    THEN DictGet(DictGet(results, variant), user_id)
    ELSE <<>>

Iterations(held) == {held[i].iteration : i \in 1..Len(held)}

\* attempts of a variant in the stats a read_user_stats returned
AttemptsIn(stats, variant) ==
    IF DictHas(stats, variant) THEN DictGet(stats, variant).attempts ELSE 0

\* the rows of the last response are those of the table
RowsFromTable ==
    {call.response.json[i] : i \in 1..Len(call.response.json)}
        = StatRows(attempts, call.user_id)

RowsOf(variant, user_id) == {r \in attempts : r.variant = variant /\ r.user_id = user_id}

CallsOf(variant, user_id) == {w \in sb_written : w.variant = variant /\ w.user_id = user_id}

\* The table of the SupabaseStore holds, for every key recorded, one row with
\* the values of the last call.
SupabaseHoldsLast ==
    /\ attempts = {AttemptRow(w.variant, w.user_id, w.result) : w \in sb_written}
    /\ \A a, b \in attempts : SameAttempt(a, b) => a = b
    /\ \A v \in SupabaseVariants, u \in StoreUsers :
          Cardinality(RowsOf(v, u)) = Cardinality(CallsOf(v, u))

\* C2 as stated: after any sequence of record_result calls either store holds
\* exactly one attempt for each (variant, user_id, iteration) recorded, with
\* the values of the last call.
C2_OneAttemptPerKey ==
    /\ SupabaseHoldsLast
    /\ \A v \in InMemoryVariants, u \in StoreUsers :
          /\ Len(Held(v, u)) = Cardinality(Iterations(Held(v, u)))
          /\ (call.method = "InMemoryStore.read_user_stats" /\ store_ret.items # <<>>
              /\ IsVariant(v)) =>
                AttemptsIn(store_ret.items, v) =
                    Cardinality(Iterations(Held(v, call.user_id)))

\* What the stores do hold: the SupabaseStore one row for each key recorded,
\* with the values of the last call; the InMemoryStore every result recorded
\* for a registered variant, also those of one iteration, and none of other
\* variants; read_user_stats counts them so.
StoresHoldWhatTheyWereHanded ==
    /\ SupabaseHoldsLast
    /\ \A v \in InMemoryVariants, u \in StoreUsers :
          Len(Held(v, u)) = IF IsVariant(v) THEN mem_calls[<<v, u>>] ELSE 0
    /\ (call.method = "InMemoryStore.read_user_stats") =>
          \A v \in InMemoryVariants :
              AttemptsIn(store_ret.items, v) = Len(Held(v, call.user_id))
    /\ (call.method = "SupabaseStore.read_user_stats" /\ ~store_ret.is_none
        /\ RowsFromTable) =>
          \A v \in SupabaseVariants :
              AttemptsIn(store_ret.items, v) = Cardinality(CallsOf(v, call.user_id))

\* The SupabaseStore was handed two results of one key with different guesses
\* and holds one row; the InMemoryStore holds the result it was handed.
OverwrittenInSupabase ==
    /\ sb_replaced
    /\ Cardinality(attempts) = 1
    /\ \E u \in StoreUsers : Len(Held("Wordle", u)) = 1

RECURSIVE SumValues(_)
SumValues(items) == IF items = <<>> THEN 0 ELSE Head(items).val + SumValues(Tail(items))

ReadUserStatsReturned ==
    /\ call.method \in {"InMemoryStore.read_user_stats", "SupabaseStore.read_user_stats"}
    /\ ~store_ret.is_none

\* C6: in every VariantStats read_user_stats returns, of either store, the
\* counts of guess_distribution add up to attempts.
C6_DistributionSumsToAttempts ==
    ReadUserStatsReturned =>
        \A i \in 1..Len(store_ret.items) :
            SumValues(store_ret.items[i].val.guess_distribution)
                = store_ret.items[i].val.attempts

\* The SupabaseStore returned stats of two attempts of six guesses.
C6_Witness ==
    /\ call.method = "SupabaseStore.read_user_stats"
    /\ ~store_ret.is_none
    /\ RowsFromTable
    /\ \E i \in 1..Len(store_ret.items) :
          /\ store_ret.items[i].val.attempts = 2
          /\ store_ret.items[i].val.guess_distribution = <<[key |-> 6, val |-> 2]>>

(***************************************************************************)
(* Claims about the parsers, checked under SpecMessage: on_message hands   *)
(* message.content to the parse method of every variant.                   *)
(***************************************************************************)
\* C3: for every text and every registered variant, parse returns a Result
\* or None and never raises.
C3_ParseNeverRaises == msg_error = "none"

\* C4: every Result a parse method returns has guesses between 1 and the
\* maximum guess count of the variant (6, and 8 for Werdel).
C4_GuessesInRange ==
    \A i \in 1..Len(parsed) :
        parsed[i].result.guesses \in 1..MaxGuesses(parsed[i].variant)

\* the share text of a standard variant, put together from its parts
Shaped(head, iteration, guesses, outof, tail) ==
    head \o iteration \o <<" ">> \o guesses \o outof \o tail

\* the integers the digits of the model's texts spell
Spelled(digits) ==
    CASE digits = <<"5">>           -> 5
      [] digits = <<"5", "0", "0">> -> 500
      [] digits = <<"4">>           -> 4
      [] digits = <<"9">>           -> 9
      [] digits = <<"0">>           -> 0
      [] digits = <<"1", "2">>      -> 12

\* What the claim expects of the parts: the hard slot is the "*" after the
\* pattern of Wordle; the other patterns have an empty slot.
Expected(name, iteration, guesses, tail, r) ==
    /\ r.iteration = iteration
    /\ DigitsToInt(r.iteration) = Spelled(iteration)
    /\ r.success = (guesses # <<"X">>)
    /\ r.guesses = IF guesses = <<"X">> THEN MaxGuesses(name) ELSE Spelled(guesses)
    /\ r.difficulty = IF name = "Wordle" /\ tail = <<"*">> THEN "hard" ELSE ""

ParsedBy(name) == {parsed[i].result : i \in {j \in 1..Len(parsed) : parsed[j].variant = name}}

WordleExample(guesses, tail) == WordleLit \o <<"5", "0", "0", " ">> \o guesses \o <<"/", "6">> \o tail

ExampleResult(success, guesses, difficulty) ==
    [iteration |-> <<"5", "0", "0">>, success |-> success, guesses |-> guesses,
     time_secs |-> <<>>, difficulty |-> difficulty]

\* C5: the record a standard variant returns for a text it matches has the
\* captured iteration, success exactly when the guesses slot is not "X", the
\* captured guesses on success and max_guesses on failure, and difficulty
\* "hard" exactly when the hard slot is not empty and no difficulty ("")
\* otherwise; "Wordle 500 4/6", "Wordle 500 4/6*" and "Wordle 500 X/6" give
\* the records of the examples.
C5_StandardExtraction ==
    /\ \A name \in StandardVariants : \A r \in ParsedBy(name) :
          \A h \in StandardHeads, i \in IterationTexts, g \in GuessTexts,
             o \in OutOfTexts, tl \in TailTexts :
                msg_content = Shaped(h, i, g, o, tl) => Expected(name, i, g, tl, r)
    /\ (msg_pc = "done" /\ msg_content = WordleExample(<<"4">>, <<>>)) =>
          ParsedBy("Wordle") = {ExampleResult(TRUE, 4, "")}
    /\ (msg_pc = "done" /\ msg_content = WordleExample(<<"4">>, <<"*">>)) =>
          ParsedBy("Wordle") = {ExampleResult(TRUE, 4, "hard")}
    /\ (msg_pc = "done" /\ msg_content = WordleExample(<<"X">>, <<>>)) =>
          ParsedBy("Wordle") = {ExampleResult(FALSE, 6, "")}

\* "Wordle 500 4/6*" went through the handler and Wordle returned a record.
C5_Witness ==
    /\ msg_pc = "done"
    /\ msg_content = WordleExample(<<"4">>, <<"*">>)
    /\ ParsedBy("Wordle") # {}

(***************************************************************************)
(* Claims about the ranking loop of the leaders command, checked under     *)
(* Spec.                                                                   *)
(***************************************************************************)
IsMedal(medal) == \E r \in 1..Len(medal_emojis) : medal_emojis[r] = medal

C12_RankingEndsCleanly ==
    (cmd_pc = "error" /\ vpos >= 1) => InnerOver

=============================================================================
